---- MODULE Spec2Model ----
(***************************************************************************)
(* A model of the 6502-subset interpreter of snes_emu (src/src/cpu.rs and  *)
(* src/src/opcode.rs): the CPU structure, its memory accessors, the        *)
(* addressing resolver, the instruction handlers and the run loop.         *)
(*                                                                         *)
(* The CPU is a record with the fields of `struct CPU` plus `panic`, the   *)
(* reason the call in progress unwound ("none" while it has not).  Every   *)
(* method of `impl CPU` is an operator from a CPU record to a CPU record   *)
(* (or to a [val, panic] record for the methods that return a value); an   *)
(* operator applied to a record that has already panicked returns it as it *)
(* is, which is how a Rust panic skips the rest of the enclosing calls.    *)
(*                                                                         *)
(* `memory: [u8; 0xFFFF]` is zero-initialised.  It is kept as the function *)
(* from the addresses that hold a non-zero byte to that byte; an index in  *)
(* 0 .. MEM_SIZE-1 outside its domain holds 0, an index >= MEM_SIZE is out *)
(* of the array's bounds.                                                  *)
(***************************************************************************)
EXTENDS Integers, Sequences, FiniteSets, TLC

VARIABLES
    program_counter,  \* CPU.program_counter: u16
    register_a,       \* CPU.register_a: u8
    register_x,       \* CPU.register_x: u8
    register_y,       \* CPU.register_y: u8
    status,           \* CPU.status: u8
    memory,           \* CPU.memory: [u8; 0xFFFF]
    panic,            \* "none", or the panic that unwound the call in progress
    overflow_checks,  \* build profile: TRUE for debug (`+` panics on overflow), FALSE for release (`+` wraps)
    loop_state,       \* position of the caller: "Idle", "Running" (inside run), "Halted" (run returned), "Panicked"
    calls,            \* the calls and field writes the caller has made, in order
    entry,            \* CPU record at the moment of the last of them
    prev,             \* CPU record before the last iteration of the run loop (as the call left it, before the first)
    instr,            \* what that iteration fetched, decoded and resolved (NoInstr before the first)
    ret               \* value returned by the last mem_read / mem_read_u16

vars == <<program_counter, register_a, register_x, register_y, status, memory,
          panic, overflow_checks, loop_state, calls, entry, prev, instr, ret>>

----------------------------------------------------------------------------
(* Widths and fixed addresses *)

\* number of elements of CPU.memory
MEM_SIZE == 65535
\* 2^8: u8 arithmetic is modulo U8
U8 == 256
\* 2^16: u16 arithmetic is modulo U16
U16 == 65536
\* where load copies the program
LOAD_ORIGIN == 32768
\* where load stores, and reset reads, the start address
RESET_VECTOR == 65532

NoPanic == "none"
IndexOutOfBounds == "index out of bounds"
AddOverflow == "attempt to add with overflow"
RangeOutOfBounds == "range end index out of range for slice"
UnwrapNone == "called Option::unwrap() on a None value"
\* todo!("Implement more opcodes!") in run
NotImplemented == "not yet implemented: Implement more opcodes!"
\* todo!("finish") in get_address
NotFinished == "not yet implemented: finish"

Byte == 0 .. (U8 - 1)

----------------------------------------------------------------------------
(* Bit operations on u8 *)

Bit(v, k) == (v \div (2 ^ k)) % 2

\* v & mask
BitAnd(v, mask) ==
    LET b(k) == (IF Bit(v, k) = 1 /\ Bit(mask, k) = 1 THEN 2 ^ k ELSE 0)
    IN  b(0) + b(1) + b(2) + b(3) + b(4) + b(5) + b(6) + b(7)

\* v | mask
BitOr(v, mask) ==
    LET b(k) == (IF Bit(v, k) = 1 \/ Bit(mask, k) = 1 THEN 2 ^ k ELSE 0)
    IN  b(0) + b(1) + b(2) + b(3) + b(4) + b(5) + b(6) + b(7)

\* the sum as it would be if the bytes were widened before they are added
add_widened(a, b) == a + b

\* u8::wrapping_add
wrapping_add_u8(a, b) == (a + b) % U8

\* u16::wrapping_add
wrapping_add_u16(a, b) == (a + b) % U16

\* `a + b` / `a += b` on u16: panics in a build with overflow checks, wraps otherwise
add_u16(a, b) ==
    [val   |-> (a + b) % U16,
     panic |-> IF a + b >= U16 /\ overflow_checks THEN AddOverflow ELSE NoPanic]

\* u16::from_le_bytes([lo, hi])
from_le_bytes(lo, hi) == lo + U8 * hi

\* u16::to_le_bytes(data)
to_le_bytes(data) == <<data % U8, data \div U8>>

----------------------------------------------------------------------------
(* The memory array *)

ZeroMemory == [a \in {} |-> 0]

\* memory[addr], for addr < MEM_SIZE
At(m, addr) == IF addr \in DOMAIN m THEN m[addr] ELSE 0

\* memory[addr] = data, for addr < MEM_SIZE
Put(m, addr, data) ==
    [a \in (IF data = 0 THEN DOMAIN m \ {addr} ELSE DOMAIN m \cup {addr})
        |-> IF a = addr THEN data ELSE m[a]]

\* A Vec<u8>, kept like the memory array: its length and the function from the
\* (0-based) positions that hold a non-zero byte to that byte.
Vec(bytes) ==
    [len |-> Len(bytes),
     at  |-> [i \in {j \in 0 .. (Len(bytes) - 1) : bytes[j + 1] # 0} |-> bytes[i + 1]]]

\* program[i], for i < program.len()
VecAt(v, i) == IF i \in DOMAIN v.at THEN v.at[i] ELSE 0

\* memory[first .. first + bytes.len()].copy_from_slice(&bytes[..]), for a range
\* within the array
CopyFromSlice(m, first, bytes) ==
    LET range   == first .. (first + bytes.len - 1)
        nonzero == {first + i : i \in DOMAIN bytes.at}
    IN  [a \in ((DOMAIN m \ range) \cup nonzero)
            |-> IF a \in range THEN bytes.at[a - first] ELSE m[a]]

----------------------------------------------------------------------------
(* struct CPU and its methods *)

\* `let x = e; ...`: F applied to the value of e
Bind(e, F(_)) == CHOOSE y \in {F(x) : x \in {e}} : TRUE

\* CPU::new
new ==
    [program_counter |-> 0, register_a |-> 0, register_x |-> 0,
     register_y |-> 0, status |-> 0, memory |-> ZeroMemory, panic |-> NoPanic]

Panic(c, why) == [c EXCEPT !.panic = why]

Ok(v) == [val |-> v, panic |-> NoPanic]

Fail(why) == [val |-> 0, panic |-> why]

\* CPU::mem_read
mem_read(c, addr) ==
    IF addr < MEM_SIZE THEN Ok(At(c.memory, addr)) ELSE Fail(IndexOutOfBounds)

\* CPU::mem_write
mem_write(c, addr, data) ==
    IF c.panic # NoPanic THEN c
    ELSE IF addr < MEM_SIZE THEN [c EXCEPT !.memory = Put(@, addr, data)]
    ELSE Panic(c, IndexOutOfBounds)

\* CPU::mem_read_u16
mem_read_u16(c, addr) ==
    Bind(mem_read(c, addr), LAMBDA lo :
    Bind(add_u16(addr, 1), LAMBDA next :
    Bind(mem_read(c, next.val), LAMBDA hi :
        IF lo.panic # NoPanic THEN lo
        ELSE IF next.panic # NoPanic THEN Fail(next.panic)
        ELSE IF hi.panic # NoPanic THEN hi
        ELSE Ok(from_le_bytes(lo.val, hi.val)))))

\* CPU::mem_write_u16
mem_write_u16(c, addr, data) ==
    Bind(to_le_bytes(data), LAMBDA bytes :
    Bind(mem_write(c, addr, bytes[1]), LAMBDA c1 :
    Bind(add_u16(addr, 1), LAMBDA next :
        IF c1.panic # NoPanic THEN c1
        ELSE IF next.panic # NoPanic THEN Panic(c1, next.panic)
        ELSE mem_write(c1, next.val, bytes[2]))))

\* set_flags as it would be without the else branch that clears the negative flag
set_flags_never_clearing_negative(c, operation_result) ==
    Bind(IF operation_result = 0
         THEN BitOr(c.status, 2)
         ELSE BitAnd(c.status, 253), LAMBDA s1 :
    Bind(IF BitAnd(operation_result, 128) # 0
         THEN BitOr(s1, 128)
         ELSE s1, LAMBDA s2 :
        IF c.panic # NoPanic THEN c ELSE [c EXCEPT !.status = s2]))

\* set_flags as it would be if the zero arm assigned the status, not or-ed it
set_flags_assigning_zero(c, operation_result) ==
    Bind(IF operation_result = 0
         THEN 2
         ELSE BitAnd(c.status, 253), LAMBDA s1 :
    Bind(IF BitAnd(operation_result, 128) # 0
         THEN BitOr(s1, 128)
         ELSE BitAnd(s1, 127), LAMBDA s2 :
        IF c.panic # NoPanic THEN c ELSE [c EXCEPT !.status = s2]))

\* CPU::set_flags
set_flags(c, operation_result) ==
    Bind(IF operation_result = 0
         THEN BitOr(c.status, 2)
         ELSE BitAnd(c.status, 253), LAMBDA s1 :
    Bind(IF BitAnd(operation_result, 128) # 0
         THEN BitOr(s1, 128)
         ELSE BitAnd(s1, 127), LAMBDA s2 :
        IF c.panic # NoPanic THEN c ELSE [c EXCEPT !.status = s2]))

\* reset as it would be if it cleared index-Y with the other registers
reset_clearing_y(c) ==
    Bind([c EXCEPT !.register_a = 0, !.register_x = 0, !.register_y = 0, !.status = 0],
         LAMBDA c1 :
    Bind(mem_read_u16(c1, RESET_VECTOR), LAMBDA vector :
        IF c.panic # NoPanic THEN c
        ELSE IF vector.panic # NoPanic THEN Panic(c1, vector.panic)
        ELSE [c1 EXCEPT !.program_counter = vector.val]))

\* reset as it would be with `+=` for `=` in the assignment of the counter
reset_adding_vector(c) ==
    Bind([c EXCEPT !.register_a = 0, !.register_x = 0, !.status = 0], LAMBDA c1 :
    Bind(mem_read_u16(c1, RESET_VECTOR), LAMBDA vector :
        IF c.panic # NoPanic THEN c
        ELSE IF vector.panic # NoPanic THEN Panic(c1, vector.panic)
        ELSE [c1 EXCEPT !.program_counter = wrapping_add_u16(@, vector.val)]))

\* CPU::reset
reset(c) ==
    Bind([c EXCEPT !.register_a = 0, !.register_x = 0, !.status = 0], LAMBDA c1 :
    Bind(mem_read_u16(c1, RESET_VECTOR), LAMBDA vector :
        IF c.panic # NoPanic THEN c
        ELSE IF vector.panic # NoPanic THEN Panic(c1, vector.panic)
        ELSE [c1 EXCEPT !.program_counter = vector.val]))

\* load as it would be if it wrote the reset vector before copying the program
load_vector_first(c, program) ==
    IF c.panic # NoPanic THEN c
    ELSE IF LOAD_ORIGIN + program.len > MEM_SIZE THEN Panic(c, RangeOutOfBounds)
    ELSE Bind(mem_write_u16(c, RESET_VECTOR, LOAD_ORIGIN), LAMBDA c1 :
             [c1 EXCEPT !.memory = CopyFromSlice(@, LOAD_ORIGIN, program)])

\* CPU::load
load(c, program) ==
    IF c.panic # NoPanic THEN c
    ELSE IF LOAD_ORIGIN + program.len > MEM_SIZE THEN Panic(c, RangeOutOfBounds)
    ELSE Bind([c EXCEPT !.memory = CopyFromSlice(@, LOAD_ORIGIN, program)], LAMBDA c1 :
             mem_write_u16(c1, RESET_VECTOR, LOAD_ORIGIN))

----------------------------------------------------------------------------
(* enum AddressingMode, enum CpuMnemonic and the opcode catalog *)

AddressingMode ==
    {"Accumulator", "Immediate", "ZeroPage", "ZeroPage_X", "ZeroPage_Y",
     "Relative", "Absolute", "Absolute_X", "Absolute_Y", "Indirect",
     "Indirect_X", "Indirect_Y", "Implied"}

CpuMnemonic == {"BRK", "LDA", "LDX", "LDY", "TAX", "INX", "STA"}

\* Opcode::new
Opcode(hex, mnemonic, cycles, addressing) ==
    [hex |-> hex, mnemonic |-> mnemonic, cycles |-> cycles, addressing |-> addressing]

\* the catalog as it would be if the zero-page STA carried 0xA5, the byte of
\* the zero-page LDA
CPU_OPS_CODES_with_duplicate ==
    << Opcode(0,   "BRK", 7, "Implied"),
       Opcode(169, "LDA", 2, "Immediate"),
       Opcode(165, "LDA", 3, "ZeroPage"),
       Opcode(181, "LDA", 4, "ZeroPage_X"),
       Opcode(173, "LDA", 4, "Absolute"),
       Opcode(189, "LDA", 4, "Absolute_X"),
       Opcode(185, "LDA", 4, "Absolute_Y"),
       Opcode(161, "LDA", 6, "Indirect_X"),
       Opcode(177, "LDA", 5, "Indirect_Y"),
       Opcode(162, "LDX", 2, "Immediate"),
       Opcode(166, "LDX", 3, "ZeroPage"),
       Opcode(182, "LDX", 4, "ZeroPage_Y"),
       Opcode(174, "LDX", 4, "Absolute"),
       Opcode(190, "LDX", 4, "Absolute_Y"),
       Opcode(160, "LDY", 2, "Immediate"),
       Opcode(164, "LDY", 3, "ZeroPage"),
       Opcode(180, "LDY", 4, "ZeroPage_X"),
       Opcode(172, "LDY", 4, "Absolute"),
       Opcode(188, "LDY", 4, "Absolute_X"),
       Opcode(170, "TAX", 2, "Implied"),
       Opcode(232, "INX", 2, "Implied"),
       Opcode(165, "STA", 3, "ZeroPage"),
       Opcode(149, "STA", 4, "ZeroPage_X"),
       Opcode(141, "STA", 4, "Absolute"),
       Opcode(157, "STA", 5, "Absolute_X"),
       Opcode(153, "STA", 5, "Absolute_Y"),
       Opcode(129, "STA", 6, "Indirect_X"),
       Opcode(145, "STA", 6, "Indirect_Y") >>

CPU_OPS_CODES ==
    << Opcode(0,   "BRK", 7, "Implied"),
       Opcode(169, "LDA", 2, "Immediate"),
       Opcode(165, "LDA", 3, "ZeroPage"),
       Opcode(181, "LDA", 4, "ZeroPage_X"),
       Opcode(173, "LDA", 4, "Absolute"),
       Opcode(189, "LDA", 4, "Absolute_X"),
       Opcode(185, "LDA", 4, "Absolute_Y"),
       Opcode(161, "LDA", 6, "Indirect_X"),
       Opcode(177, "LDA", 5, "Indirect_Y"),
       Opcode(162, "LDX", 2, "Immediate"),
       Opcode(166, "LDX", 3, "ZeroPage"),
       Opcode(182, "LDX", 4, "ZeroPage_Y"),
       Opcode(174, "LDX", 4, "Absolute"),
       Opcode(190, "LDX", 4, "Absolute_Y"),
       Opcode(160, "LDY", 2, "Immediate"),
       Opcode(164, "LDY", 3, "ZeroPage"),
       Opcode(180, "LDY", 4, "ZeroPage_X"),
       Opcode(172, "LDY", 4, "Absolute"),
       Opcode(188, "LDY", 4, "Absolute_X"),
       Opcode(170, "TAX", 2, "Implied"),
       Opcode(232, "INX", 2, "Implied"),
       Opcode(133, "STA", 3, "ZeroPage"),
       Opcode(149, "STA", 4, "ZeroPage_X"),
       Opcode(141, "STA", 4, "Absolute"),
       Opcode(157, "STA", 5, "Absolute_X"),
       Opcode(153, "STA", 5, "Absolute_Y"),
       Opcode(129, "STA", 6, "Indirect_X"),
       Opcode(145, "STA", 6, "Indirect_Y") >>

\* Option<T>
None == [some |-> FALSE, val |-> 0]

Some(v) == [some |-> TRUE, val |-> v]

\* The HashMap built by inserting the rows in order: a later row replaces an
\* earlier one with the same key.
OPCODES_MAP ==
    LET rows(h) == {i \in DOMAIN CPU_OPS_CODES : CPU_OPS_CODES[i].hex = h}
        last(S) == CHOOSE i \in S : \A j \in S : j <= i
    IN  [h \in {CPU_OPS_CODES[i].hex : i \in DOMAIN CPU_OPS_CODES}
            |-> CPU_OPS_CODES[last(rows(h))]]

\* OPCODES_MAP.get(&code)
OpcodesMapGet(code) ==
    IF code \in DOMAIN OPCODES_MAP THEN Some(OPCODES_MAP[code]) ELSE None

----------------------------------------------------------------------------
(* The addressing resolver *)

\* the arm's tail as it would be if it also set the zero and negative flags
\* from the low byte of the address
Resolve_setting_flags(c, res, n) ==
    Bind(add_u16(c.program_counter, n), LAMBDA np :
        IF res.panic # NoPanic
        THEN [cpu |-> Panic(c, res.panic), address |-> None]
        ELSE IF np.panic # NoPanic
        THEN [cpu |-> Panic(c, np.panic), address |-> None]
        ELSE [cpu |-> set_flags([c EXCEPT !.program_counter = np.val], res.val % 256),
              address |-> Some(res.val)])

\* `address = Some(<res>); self.program_counter += n;`: [cpu, address], with res
\* the [val, panic] result of the address expression
Resolve(c, res, n) ==
    Bind(add_u16(c.program_counter, n), LAMBDA np :
        IF res.panic # NoPanic
        THEN [cpu |-> Panic(c, res.panic), address |-> None]
        ELSE IF np.panic # NoPanic
        THEN [cpu |-> Panic(c, np.panic), address |-> None]
        ELSE [cpu |-> [c EXCEPT !.program_counter = np.val], address |-> Some(res.val)])

\* res, a [val, panic] result, continued by F when it did not panic
Then(res, F(_)) == IF res.panic # NoPanic THEN res ELSE F(res.val)

\* the address expressions as they would be if Indirect_Y added Y to the
\* pointer's address before the word is read
AddressOf_indexing_the_pointer(c, addressing_mode) ==
    Bind(c.program_counter, LAMBDA pc :
    Bind(IF addressing_mode \in {"Absolute", "Absolute_X", "Absolute_Y", "Indirect"}
         THEN mem_read_u16(c, pc)
         ELSE mem_read(c, pc), LAMBDA operand :
        CASE addressing_mode = "Immediate"  -> Ok(pc)
          [] addressing_mode = "ZeroPage"   -> operand
          [] addressing_mode = "ZeroPage_X" ->
                 Then(operand, LAMBDA b : Ok(wrapping_add_u8(b, c.register_x)))
          [] addressing_mode = "ZeroPage_Y" ->
                 Then(operand, LAMBDA b : Ok(wrapping_add_u8(b, c.register_y)))
          [] addressing_mode = "Relative"   ->
                 Then(operand, LAMBDA b : Ok(wrapping_add_u16(pc, b)))
          [] addressing_mode = "Absolute"   -> operand
          [] addressing_mode = "Absolute_X" ->
                 Then(operand, LAMBDA w : Ok(wrapping_add_u16(w, c.register_x)))
          [] addressing_mode = "Absolute_Y" ->
                 Then(operand, LAMBDA w : Ok(wrapping_add_u16(w, c.register_y)))
          [] addressing_mode = "Indirect"   ->
                 Then(operand, LAMBDA w : mem_read_u16(c, w))
          [] addressing_mode = "Indirect_X" ->
                 Then(operand, LAMBDA b : mem_read_u16(c, wrapping_add_u8(b, c.register_x)))
          [] addressing_mode = "Indirect_Y" ->
                 Then(operand, LAMBDA b : mem_read_u16(c, wrapping_add_u8(b, c.register_y)))))

\* the address expressions as they would be if Indirect_X took the pointer's
\* second byte from within page 0
AddressOf_wrapping_the_pointer(c, addressing_mode) ==
    Bind(c.program_counter, LAMBDA pc :
    Bind(IF addressing_mode \in {"Absolute", "Absolute_X", "Absolute_Y", "Indirect"}
         THEN mem_read_u16(c, pc)
         ELSE mem_read(c, pc), LAMBDA operand :
        CASE addressing_mode = "Immediate"  -> Ok(pc)
          [] addressing_mode = "ZeroPage"   -> operand
          [] addressing_mode = "ZeroPage_X" ->
                 Then(operand, LAMBDA b : Ok(wrapping_add_u8(b, c.register_x)))
          [] addressing_mode = "ZeroPage_Y" ->
                 Then(operand, LAMBDA b : Ok(wrapping_add_u8(b, c.register_y)))
          [] addressing_mode = "Relative"   ->
                 Then(operand, LAMBDA b : Ok(wrapping_add_u16(pc, b)))
          [] addressing_mode = "Absolute"   -> operand
          [] addressing_mode = "Absolute_X" ->
                 Then(operand, LAMBDA w : Ok(wrapping_add_u16(w, c.register_x)))
          [] addressing_mode = "Absolute_Y" ->
                 Then(operand, LAMBDA w : Ok(wrapping_add_u16(w, c.register_y)))
          [] addressing_mode = "Indirect"   ->
                 Then(operand, LAMBDA w : mem_read_u16(c, w))
          [] addressing_mode = "Indirect_X" ->
                 Then(operand, LAMBDA b :
                     Bind(wrapping_add_u8(b, c.register_x), LAMBDA p :
                         Ok(from_le_bytes(At(c.memory, p), At(c.memory, wrapping_add_u8(p, 1))))))
          [] addressing_mode = "Indirect_Y" ->
                 Then(operand, LAMBDA b :
                     Then(mem_read_u16(c, b), LAMBDA w : Ok(wrapping_add_u16(w, c.register_y))))))

\* The address expression of each arm of the match of get_address, evaluated
\* with the counter at the first operand byte: a [val, panic] result
AddressOf(c, addressing_mode) ==
    Bind(c.program_counter, LAMBDA pc :
    Bind(IF addressing_mode \in {"Absolute", "Absolute_X", "Absolute_Y", "Indirect"}
         THEN mem_read_u16(c, pc)
         ELSE mem_read(c, pc), LAMBDA operand :
        CASE addressing_mode = "Immediate"  -> Ok(pc)
          [] addressing_mode = "ZeroPage"   -> operand
          [] addressing_mode = "ZeroPage_X" ->
                 Then(operand, LAMBDA b : Ok(wrapping_add_u8(b, c.register_x)))
          [] addressing_mode = "ZeroPage_Y" ->
                 Then(operand, LAMBDA b : Ok(wrapping_add_u8(b, c.register_y)))
          [] addressing_mode = "Relative"   ->
                 Then(operand, LAMBDA b : Ok(wrapping_add_u16(pc, b)))
          [] addressing_mode = "Absolute"   -> operand
          [] addressing_mode = "Absolute_X" ->
                 Then(operand, LAMBDA w : Ok(wrapping_add_u16(w, c.register_x)))
          [] addressing_mode = "Absolute_Y" ->
                 Then(operand, LAMBDA w : Ok(wrapping_add_u16(w, c.register_y)))
          [] addressing_mode = "Indirect"   ->
                 Then(operand, LAMBDA w : mem_read_u16(c, w))
          [] addressing_mode = "Indirect_X" ->
                 Then(operand, LAMBDA b : mem_read_u16(c, wrapping_add_u8(b, c.register_x)))
          [] addressing_mode = "Indirect_Y" ->
                 Then(operand, LAMBDA b :
                     Then(mem_read_u16(c, b), LAMBDA w : Ok(wrapping_add_u16(w, c.register_y))))))

\* the operand bytes as they would be if every arm advanced the counter by one
OperandBytes_always_one(addressing_mode) == 1

\* the `self.program_counter += n` of each arm
OperandBytes(addressing_mode) ==
    IF addressing_mode \in {"Absolute", "Absolute_X", "Absolute_Y", "Indirect"} THEN 2 ELSE 1

\* get_address as it would be without its arm for Indirect_Y
get_address_without_indirect_y(c, addressing_mode) ==
    IF c.panic # NoPanic THEN [cpu |-> c, address |-> None]
    ELSE IF addressing_mode = "Implied" THEN [cpu |-> c, address |-> None]
    ELSE IF addressing_mode \in
              {"Immediate", "ZeroPage", "ZeroPage_X", "ZeroPage_Y", "Relative", "Absolute",
               "Absolute_X", "Absolute_Y", "Indirect", "Indirect_X"}
    THEN Bind(AddressOf(c, addressing_mode), LAMBDA res :
             Resolve(c, res, OperandBytes(addressing_mode)))
    ELSE [cpu |-> Panic(c, NotFinished), address |-> None]

\* CPU::get_address: [cpu, address], address an Option<u16>
get_address(c, addressing_mode) ==
    IF c.panic # NoPanic THEN [cpu |-> c, address |-> None]
    ELSE IF addressing_mode = "Implied" THEN [cpu |-> c, address |-> None]
    ELSE IF addressing_mode \in
              {"Immediate", "ZeroPage", "ZeroPage_X", "ZeroPage_Y", "Relative", "Absolute",
               "Absolute_X", "Absolute_Y", "Indirect", "Indirect_X", "Indirect_Y"}
    THEN Bind(AddressOf(c, addressing_mode), LAMBDA res :
             Resolve(c, res, OperandBytes(addressing_mode)))
    ELSE [cpu |-> Panic(c, NotFinished), address |-> None]

\* `self.get_address(addressing_mode).unwrap()`: [cpu, addr]
GetAddressUnwrap(c, addressing_mode) ==
    Bind(get_address(c, addressing_mode), LAMBDA r :
        IF r.cpu.panic # NoPanic THEN [cpu |-> r.cpu, addr |-> 0]
        ELSE IF ~r.address.some THEN [cpu |-> Panic(r.cpu, UnwrapNone), addr |-> 0]
        ELSE [cpu |-> r.cpu, addr |-> r.address.val])

----------------------------------------------------------------------------
(* The instruction handlers *)

\* `self.<register> = self.mem_read(addr); self.set_flags(self.<register>);`
LoadRegister(c, addressing_mode, register) ==
    Bind(GetAddressUnwrap(c, addressing_mode), LAMBDA r :
    Bind(mem_read(r.cpu, r.addr), LAMBDA v :
        IF r.cpu.panic # NoPanic THEN r.cpu
        ELSE IF v.panic # NoPanic THEN Panic(r.cpu, v.panic)
        ELSE Bind([r.cpu EXCEPT ![register] = v.val], LAMBDA c1 :
                 set_flags(c1, c1[register]))))

\* CPU::lda
lda(c, addressing_mode) == LoadRegister(c, addressing_mode, "register_a")

\* CPU::ldx
ldx(c, addressing_mode) == LoadRegister(c, addressing_mode, "register_x")

\* CPU::ldy
ldy(c, addressing_mode) == LoadRegister(c, addressing_mode, "register_y")

\* sta as it would be without its call of set_flags
sta_without_flags(c, addressing_mode) ==
    Bind(GetAddressUnwrap(c, addressing_mode), LAMBDA r :
        mem_write(r.cpu, r.addr, r.cpu.register_a))

\* CPU::sta
sta(c, addressing_mode) ==
    Bind(GetAddressUnwrap(c, addressing_mode), LAMBDA r :
    Bind(mem_write(r.cpu, r.addr, r.cpu.register_a), LAMBDA c1 :
        set_flags(c1, c1.register_a)))

\* tax as it would be without its call of set_flags
tax_without_flags(c) == [c EXCEPT !.register_x = c.register_a]

\* CPU::tax
tax(c) ==
    Bind([c EXCEPT !.register_x = c.register_a], LAMBDA c1 :
        set_flags(c1, c1.register_x))

\* inx as it would be with a plain `+ 1` that does not wrap
inx_without_wrap(c) ==
    Bind([c EXCEPT !.register_x = c.register_x + 1], LAMBDA c1 :
        set_flags(c1, c1.register_x))

\* CPU::inx
inx(c) ==
    Bind([c EXCEPT !.register_x = wrapping_add_u8(c.register_x, 1)], LAMBDA c1 :
        set_flags(c1, c1.register_x))

----------------------------------------------------------------------------
(* The run loop *)

\* the fetch as it would be without `self.program_counter += 1`
Fetch_without_advance(c) ==
    Bind(mem_read(c, c.program_counter), LAMBDA code :
        IF code.panic # NoPanic THEN [cpu |-> Panic(c, code.panic), code |-> 0]
        ELSE [cpu |-> c, code |-> code.val])

\* `let code = self.mem_read(self.program_counter); self.program_counter += 1;`
\* [cpu, code]
Fetch(c) ==
    Bind(mem_read(c, c.program_counter), LAMBDA code :
    Bind(add_u16(c.program_counter, 1), LAMBDA np :
        IF code.panic # NoPanic THEN [cpu |-> Panic(c, code.panic), code |-> 0]
        ELSE IF np.panic # NoPanic THEN [cpu |-> Panic(c, np.panic), code |-> code.val]
        ELSE [cpu |-> [c EXCEPT !.program_counter = np.val], code |-> code.val]))

\* the match as it would be if the BRK arm did not return
Dispatch_without_return(c, opcode) ==
    CASE opcode.mnemonic = "LDA" -> [cpu |-> lda(c, opcode.addressing), returned |-> FALSE]
      [] opcode.mnemonic = "LDX" -> [cpu |-> ldx(c, opcode.addressing), returned |-> FALSE]
      [] opcode.mnemonic = "LDY" -> [cpu |-> ldy(c, opcode.addressing), returned |-> FALSE]
      [] opcode.mnemonic = "STA" -> [cpu |-> sta(c, opcode.addressing), returned |-> FALSE]
      [] opcode.mnemonic = "TAX" -> [cpu |-> tax(c), returned |-> FALSE]
      [] opcode.mnemonic = "INX" -> [cpu |-> inx(c), returned |-> FALSE]
      [] opcode.mnemonic = "BRK" -> [cpu |-> c, returned |-> FALSE]

\* the match as it would be if the BRK arm cleared the flags before it returns
Dispatch_clearing_flags_on_halt(c, opcode) ==
    CASE opcode.mnemonic = "LDA" -> [cpu |-> lda(c, opcode.addressing), returned |-> FALSE]
      [] opcode.mnemonic = "LDX" -> [cpu |-> ldx(c, opcode.addressing), returned |-> FALSE]
      [] opcode.mnemonic = "LDY" -> [cpu |-> ldy(c, opcode.addressing), returned |-> FALSE]
      [] opcode.mnemonic = "STA" -> [cpu |-> sta(c, opcode.addressing), returned |-> FALSE]
      [] opcode.mnemonic = "TAX" -> [cpu |-> tax(c), returned |-> FALSE]
      [] opcode.mnemonic = "INX" -> [cpu |-> inx(c), returned |-> FALSE]
      [] opcode.mnemonic = "BRK" -> [cpu |-> [c EXCEPT !.status = 0], returned |-> TRUE]

\* `match &opcode.mnemonic { ... }`: [cpu, returned]
Dispatch(c, opcode) ==
    CASE opcode.mnemonic = "LDA" -> [cpu |-> lda(c, opcode.addressing), returned |-> FALSE]
      [] opcode.mnemonic = "LDX" -> [cpu |-> ldx(c, opcode.addressing), returned |-> FALSE]
      [] opcode.mnemonic = "LDY" -> [cpu |-> ldy(c, opcode.addressing), returned |-> FALSE]
      [] opcode.mnemonic = "STA" -> [cpu |-> sta(c, opcode.addressing), returned |-> FALSE]
      [] opcode.mnemonic = "TAX" -> [cpu |-> tax(c), returned |-> FALSE]
      [] opcode.mnemonic = "INX" -> [cpu |-> inx(c), returned |-> FALSE]
      [] opcode.mnemonic = "BRK" -> [cpu |-> c, returned |-> TRUE]

\* the iteration as it would be if a byte without a catalog row were skipped
RunIteration_skipping_unknown(c) ==
    Bind(Fetch(c), LAMBDA f :
    Bind(OpcodesMapGet(f.code), LAMBDA opcode :
        IF f.cpu.panic # NoPanic THEN [cpu |-> f.cpu, returned |-> FALSE]
        ELSE IF ~opcode.some THEN [cpu |-> f.cpu, returned |-> FALSE]
        ELSE Dispatch(f.cpu, opcode.val)))

\* One iteration of the loop of CPU::run: [cpu, returned]
RunIteration(c) ==
    Bind(Fetch(c), LAMBDA f :
    Bind(OpcodesMapGet(f.code), LAMBDA opcode :
        IF f.cpu.panic # NoPanic THEN [cpu |-> f.cpu, returned |-> FALSE]
        ELSE IF ~opcode.some THEN [cpu |-> Panic(f.cpu, NotImplemented), returned |-> FALSE]
        ELSE Dispatch(f.cpu, opcode.val)))

\* CPU::run: the CPU as run leaves it, by returning or by panicking
RECURSIVE run(_)
run(c) ==
    IF c.panic # NoPanic THEN c
    ELSE Bind(RunIteration(c), LAMBDA r :
             IF r.returned \/ r.cpu.panic # NoPanic THEN r.cpu ELSE run(r.cpu))

\* load_and_run as it would be without its call of reset
LoadAndRunPrologue_without_reset(c, program) == load(c, program)

\* `self.load(program); self.reset();`, the part of load_and_run before the loop
LoadAndRunPrologue(c, program) ==
    Bind(load(c, program), LAMBDA c1 : reset(c1))

----------------------------------------------------------------------------
(* The state of the model and the caller's moves *)

\* the CPU held in the variables
Cpu ==
    [program_counter |-> program_counter, register_a |-> register_a,
     register_x |-> register_x, register_y |-> register_y, status |-> status,
     memory |-> memory, panic |-> panic]

Install(c) ==
    /\ program_counter' = c.program_counter
    /\ register_a' = c.register_a
    /\ register_x' = c.register_x
    /\ register_y' = c.register_y
    /\ status' = c.status
    /\ memory' = c.memory
    /\ panic' = c.panic

NoInstr ==
    [fetched |-> FALSE, at |-> 0, code |-> 0, decoded |-> FALSE, mnemonic |-> "",
     addressing |-> "", resolved |-> FALSE, address |-> 0]

\* What the iteration of the run loop that starts in c fetches, decodes and resolves
InstrOf(c) ==
    Bind(Fetch(c), LAMBDA f :
    Bind(OpcodesMapGet(f.code), LAMBDA opcode :
    Bind(f.cpu.panic = NoPanic /\ opcode.some, LAMBDA decoded :
    Bind(IF decoded /\ opcode.val.mnemonic \in {"LDA", "LDX", "LDY", "STA"}
         THEN get_address(f.cpu, opcode.val.addressing).address
         ELSE None, LAMBDA address :
        [fetched    |-> f.cpu.panic = NoPanic,
         at         |-> c.program_counter,
         code       |-> f.code,
         decoded    |-> decoded,
         mnemonic   |-> IF decoded THEN opcode.val.mnemonic ELSE "",
         addressing |-> IF decoded THEN opcode.val.addressing ELSE "",
         resolved   |-> address.some,
         address    |-> address.val]))))

NoProgram == Vec(<<>>)

CallRecord(name, program, field, addr, data) ==
    [name |-> name, program |-> program, field |-> field, addr |-> addr, data |-> data]

\* the caller holds the CPU: no run is in progress and nothing has panicked
Callable == loop_state \in {"Idle", "Halted"}

\* A call that leaves the CPU c and returns value to the caller, or panics
Returns(c, record, value) ==
    /\ Callable
    /\ Install(c)
    /\ calls' = Append(calls, record)
    /\ entry' = Cpu
    /\ ret' = value
    /\ prev' = c
    /\ instr' = NoInstr
    /\ loop_state' = IF c.panic # NoPanic THEN "Panicked" ELSE "Idle"
    /\ UNCHANGED overflow_checks

\* A call that enters the loop of run with the CPU c
Enters(c, record) ==
    /\ Callable
    /\ Install(c)
    /\ calls' = Append(calls, record)
    /\ entry' = Cpu
    /\ prev' = c
    /\ instr' = NoInstr
    /\ loop_state' = IF c.panic # NoPanic THEN "Panicked" ELSE "Running"
    /\ UNCHANGED <<overflow_checks, ret>>

\* `cpu.<field> = value` on a public field
DoSetField(field, value) ==
    \E c \in {[Cpu EXCEPT ![field] = value]} :
        Returns(c, CallRecord("set_field", NoProgram, field, 0, value), ret)

DoMemWrite(addr, data) ==
    \E c \in {mem_write(Cpu, addr, data)} :
        Returns(c, CallRecord("mem_write", NoProgram, "", addr, data), ret)

DoMemRead(addr) ==
    \E r \in {mem_read(Cpu, addr)} :
        \E c \in {Panic(Cpu, r.panic)} :
            Returns(c, CallRecord("mem_read", NoProgram, "", addr, 0), r.val)

DoMemWriteU16(addr, data) ==
    \E c \in {mem_write_u16(Cpu, addr, data)} :
        Returns(c, CallRecord("mem_write_u16", NoProgram, "", addr, data), ret)

DoMemReadU16(addr) ==
    \E r \in {mem_read_u16(Cpu, addr)} :
        \E c \in {Panic(Cpu, r.panic)} :
            Returns(c, CallRecord("mem_read_u16", NoProgram, "", addr, 0), r.val)

DoLoad(program) ==
    \E c \in {load(Cpu, program)} :
        Returns(c, CallRecord("load", program, "", 0, 0), ret)

DoReset ==
    \E c \in {reset(Cpu)} :
        Returns(c, CallRecord("reset", NoProgram, "", 0, 0), ret)

DoRun ==
    \E c \in {Cpu} :
        Enters(c, CallRecord("run", NoProgram, "", 0, 0))

DoLoadAndRun(program) ==
    \E c \in {LoadAndRunPrologue(Cpu, program)} :
        Enters(c, CallRecord("load_and_run", program, "", 0, 0))

\* One iteration of the loop of run
Step ==
    /\ loop_state = "Running"
    /\ \E r \in {RunIteration(Cpu)} :
           /\ Install(r.cpu)
           /\ loop_state' = IF r.cpu.panic # NoPanic THEN "Panicked"
                            ELSE IF r.returned THEN "Halted"
                            ELSE "Running"
    /\ prev' = Cpu
    /\ instr' = InstrOf(Cpu)
    /\ UNCHANGED <<overflow_checks, calls, entry, ret>>

Init ==
    /\ program_counter = new.program_counter
    /\ register_a = new.register_a
    /\ register_x = new.register_x
    /\ register_y = new.register_y
    /\ status = new.status
    /\ memory = new.memory
    /\ panic = new.panic
    /\ overflow_checks \in BOOLEAN
    /\ loop_state = "Idle"
    /\ calls = <<>>
    /\ entry = new
    /\ prev = new
    /\ instr = NoInstr
    /\ ret = 0

----------------------------------------------------------------------------
(* Spec: one run on one CPU.  The caller constructs the CPU, writes some of  *)
(* its fields and memory bytes, and calls load_and_run or run, as the tests  *)
(* of the repository do.                                                     *)

\* number of field and memory writes made before the run
MaxSetup == 2

FieldWrites ==
    { <<"program_counter", \HFFFE>>, <<"program_counter", \HFFFF>>,
      <<"status", \HFF>>, <<"register_a", \HEA>>, <<"register_y", \H05>> }

\* <<address, byte>>
ByteWrites ==
    { <<\H0050, \HDE>>, <<\H5005, \HEA>>, <<\HDEAD, \HEA>>,
      <<\HFFFE, \HA9>>,     \* LDA # in the last byte of the array
      <<\HFFFE, \HE8>> }    \* INX in the last byte of the array

\* <<address, word>>
WordWrites ==
    { <<\H0050, \H5000>>, <<\H0055, \HDEAD>>,
      <<\H0000, \H05A9>> }  \* LDA #$05 at 0x0000, where a new CPU's counter points

\* the programs of the tests of cpu.rs
TestPrograms ==
    { <<\HA9, \H05, \H00>>,
      <<\HA9, \H00, \H00>>,
      <<\HA9, \HFF, \H00>>,
      <<\HA9, \H50, \HAA, \H00>>,
      <<\HAA, \H00>>,
      <<\HA9, \HFF, \HAA, \H00>>,
      <<\HE8, \H00>>,
      <<\HA9, \HFF, \HAA, \HE8, \H00>>,
      <<\HA9, \HFF, \HAA, \HE8, \HE8, \H00>>,
      <<\HA9, \HFE, \HAA, \HE8, \H00>>,
      <<\HA9, \HC0, \HAA, \HE8, \H00>>,
      <<\HA2, \HAB, \H00>>,
      <<\HA0, \HAB, \H00>>,
      <<\HA5, \H50, \H00>>,
      <<\HE8, \HB5, \H50, \H00>>,
      <<\HE8, \HB5, \HFF, \H00>>,
      <<\HAD, \HAD, \HDE, \H00>>,
      <<\HE8, \HBD, \HAD, \HDE, \H00>>,
      <<\HA0, \H50, \HB9, \H00, \H50, \H00>>,
      <<\HA2, \H05, \HA1, \H50, \H00>>,
      <<\HA0, \H05, \HB1, \H50, \H00>>,
      <<\HA9, \H50, \H85, \H30, \H00>>,
      <<\HA9, \HFE, \HE8, \H95, \H50, \H00>>,
      <<\HA9, \HBE, \H8D, \HAD, \HDE, \H00>>,
      <<\HA9, \HBE, \HE8, \H9D, \HAD, \HDE, \H00>>,
      <<\HA9, \HBE, \HA0, \H50, \H99, \H00, \H50, \H00>>,
      <<\HA9, \HEA, \HA2, \H05, \H81, \H50, \H00>>,
      <<\HA9, \HEA, \HA0, \H05, \H91, \H50, \H00>> }

\* programs for the catalog rows, operands and faults the tests leave out
MorePrograms ==
    { <<\HA6, \H50, \H00>>,                              \* LDX $50
      <<\HA0, \H01, \HB6, \H4F, \H00>>,                  \* LDY #$01; LDX $4F,Y
      <<\HAE, \H00, \H80, \H00>>,                        \* LDX $8000 (its own opcode)
      <<\HA0, \H02, \HBE, \HFE, \H7F, \H00>>,            \* LDY #$02; LDX $7FFE,Y
      <<\HA4, \H50, \H00>>,                              \* LDY $50
      <<\HA2, \H01, \HB4, \H4F, \H00>>,                  \* LDX #$01; LDY $4F,X
      <<\HAC, \H01, \H80, \H00>>,                        \* LDY $8001 (0x01)
      <<\HA2, \H01, \HBC, \H00, \H80, \H00>>,            \* LDX #$01; LDY $8000,X
      <<\HA9, \H00, \HAD, \H00, \H80, \H00>>,            \* LDA #$00; LDA $8000 (0xA9)
      <<\HA9, \HFF, \HA5, \H50, \H00>>,                  \* LDA #$FF; LDA $50
      <<\HA9, \HFF, \HA6, \H50, \H00>>,                  \* LDA #$FF; LDX $50
      <<\HA0, \HFF, \HB9, \H01, \HFF, \H00>>,            \* LDY #$FF; LDA $FF01,Y (wraps to 0x0000)
      <<\HA2, \HFF, \HB5, \H80, \H00>>,                  \* LDX #$FF; LDA $80,X (0x7F)
      <<\HAD, \HFF, \HFF, \H00>>,                        \* LDA $FFFF
      <<\HA9, \H01, \H8D, \HFF, \HFF, \H00>>,            \* LDA #$01; STA $FFFF
      <<\HA2, \HFF, \HBD, \H00, \HFF, \H00>>,            \* LDX #$FF; LDA $FF00,X (0xFFFF)
      <<\HA2, \HFF, \HA1, \H00, \H00>>,                  \* LDX #$FF; LDA ($00,X) (pointer 0xFF)
      <<\HA9, \H00, \H85, \H10, \H00>>,                  \* LDA #$00; STA $10
      <<\HA9, \H80, \HA2, \H01, \H85, \H10, \H00>>,      \* LDA #$80; LDX #$01; STA $10
      <<\HA9, \HE8, \H8D, \H05, \H80, \H00, \H00>>,      \* LDA #$E8; STA $8005 (writes INX over BRK)
      <<\HA9, \H80, \HA2, \H01, \HAA, \H00>>,            \* LDA #$80; LDX #$01; TAX
      <<\HA9, \H00, \HA2, \H80, \HAA, \H00>>,            \* LDA #$00; LDX #$80; TAX
      <<\HEA>>,                                          \* no catalog row
      <<\HA9, \H05, \HEA, \HE8, \H00>>,                  \* LDA #$05; no catalog row; INX
      <<\H00, \HA9, \H05>> }                             \* BRK; LDA #$05

\* `op #$00; op #$01; ...; op #$FF; BRK` for an immediate load opcode op
Sweep(op) ==
    Vec([i \in 1 .. (2 * U8 + 1) |->
            IF i = 2 * U8 + 1 THEN 0
            ELSE IF i % 2 = 1 THEN op
            ELSE (i \div 2) - 1])

\* LDA #, LDX #, LDY #
SweepPrograms == {Sweep(\HA9), Sweep(\HA2), Sweep(\HA0)}

Programs == {Vec(p) : p \in TestPrograms \cup MorePrograms}

\* the catalog rows that resolve an address in memory
MemoryRows ==
    {CPU_OPS_CODES[i] : i \in {j \in DOMAIN CPU_OPS_CODES :
        /\ CPU_OPS_CODES[j].mnemonic \in {"LDA", "LDX", "LDY", "STA"}
        /\ CPU_OPS_CODES[j].addressing # "Immediate"}}

\* a zero, a positive and a negative byte
OperandBytesOfInterest == {\H00, \H05, \H80}

\* the immediate load of a register
ImmediateLoad(register) ==
    CASE register = "A" -> \HA9
      [] register = "X" -> \HA2
      [] register = "Y" -> \HA0

\* A program that makes the operand of `row` the cell 0x0050 (zero-page
\* modes) or 0x1234 (the others), and then executes the row:
\*   a load:  the cell holds v, the loaded register holds 0xFF, and the flags
\*            are those of the last index or register load;
\*   a store: the accumulator holds v and the flags are those of a byte of
\*            the opposite sign in a register the mode does not index with.
RowProgram(row, v) ==
    LET m == row.addressing
        zp == m \in {"ZeroPage", "ZeroPage_X", "ZeroPage_Y"}
        usesX == m \in {"ZeroPage_X", "Absolute_X", "Indirect_X"}
        target == CASE row.mnemonic = "LDX" -> "X"
                    [] row.mnemonic = "LDY" -> "Y"
                    [] OTHER -> "A"
        pointer ==
            CASE m = "Indirect_X" ->
                    <<\HA9, \H34, \H85, \H55, \HA9, \H12, \H85, \H56>>
              [] m = "Indirect_Y" ->
                    <<\HA9, \H30, \H85, \H50, \HA9, \H12, \H85, \H51>>
              [] OTHER -> <<>>
        cell == IF zp THEN <<\HA9, v, \H85, \H50>>
                ELSE <<\HA9, v, \H8D, \H34, \H12>>
        index ==
            CASE m = "ZeroPage_X" -> <<\HA2, \H01>>
              [] m = "ZeroPage_Y" -> <<\HA0, \H01>>
              [] m = "Absolute_X" -> <<\HA2, \H04>>
              [] m = "Absolute_Y" -> <<\HA0, \H04>>
              [] m = "Indirect_X" -> <<\HA2, \H05>>
              [] m = "Indirect_Y" -> <<\HA0, \H04>>
              [] OTHER -> <<>>
        operand ==
            CASE m = "ZeroPage" -> <<\H50>>
              [] m \in {"ZeroPage_X", "ZeroPage_Y"} -> <<\H4F>>
              [] m = "Absolute" -> <<\H34, \H12>>
              [] m \in {"Absolute_X", "Absolute_Y"} -> <<\H30, \H12>>
              [] OTHER -> <<\H50>>
        other == <<ImmediateLoad(IF usesX THEN "Y" ELSE "X"),
                   IF v = \H80 THEN \H01 ELSE \H80>>
    IN  IF row.mnemonic = "STA"
        THEN pointer \o index \o <<\HA9, v>> \o other
                 \o <<row.hex>> \o operand \o <<\H00>>
        ELSE pointer \o cell \o <<ImmediateLoad(target), \HFF>> \o index
                 \o <<row.hex>> \o operand \o <<\H00>>

RowPrograms ==
    {Vec(RowProgram(row, v)) : row \in MemoryRows, v \in OperandBytesOfInterest}

\* the bytes that no catalog row carries
UnknownBytes == Byte \ {CPU_OPS_CODES[i].hex : i \in DOMAIN CPU_OPS_CODES}

\* `LDA #$80; LDX #$01; STA $10; <b>; INX; BRK` for every byte b without a row
UnknownPrograms ==
    {Vec(<<\HA9, \H80, \HA2, \H01, \H85, \H10, b, \HE8, \H00>>) : b \in UnknownBytes}

SetField ==
    /\ loop_state = "Idle"
    /\ Len(calls) < MaxSetup
    /\ \E w \in FieldWrites : DoSetField(w[1], w[2])

SetByte ==
    /\ loop_state = "Idle"
    /\ Len(calls) < MaxSetup
    /\ \E w \in ByteWrites : DoMemWrite(w[1], w[2])

SetWord ==
    /\ loop_state = "Idle"
    /\ Len(calls) < MaxSetup
    /\ \E w \in WordWrites : DoMemWriteU16(w[1], w[2])

LoadAndRun ==
    /\ loop_state = "Idle"
    /\ \E program \in Programs : DoLoadAndRun(program)

\* the sweeps, on a CPU as new() leaves it
LoadAndRunSweep ==
    /\ loop_state = "Idle"
    /\ calls = <<>>
    /\ \E program \in SweepPrograms : DoLoadAndRun(program)

\* the row programs, on a CPU as new() leaves it
LoadAndRunRow ==
    /\ loop_state = "Idle"
    /\ calls = <<>>
    /\ \E program \in RowPrograms : DoLoadAndRun(program)

Run ==
    /\ loop_state = "Idle"
    /\ DoRun

\* the catalog rows that add an index register to a 16-bit base
IndexedRows ==
    {CPU_OPS_CODES[i] : i \in {j \in DOMAIN CPU_OPS_CODES :
        CPU_OPS_CODES[j].addressing \in {"Absolute_X", "Absolute_Y", "Indirect_Y"}}}

\* bases below, across and at the end of a page, and at the end of the address space
IndexedBases == {\H0000, \H1234, \H50FF, \HFFF0}

IndexedIndexes == {\H00, \H01, \H05, \H0F, \H10, \H80, \HFF}

\* A program that loads 0x33 into A and index into the index register of
\* `row`, and executes the row on the base: the operand word of Absolute_X and
\* Absolute_Y, the word the program stores at 0x0050 for Indirect_Y
IndexedProgram(row, base, index) ==
    IF row.addressing = "Indirect_Y"
    THEN <<\HA9, base % U8, \H85, \H50, \HA9, base \div U8, \H85, \H51,
           \HA9, \H33, \HA0, index, row.hex, \H50, \H00>>
    ELSE <<\HA9, \H33,
           ImmediateLoad(IF row.addressing = "Absolute_X" THEN "X" ELSE "Y"), index,
           row.hex, base % U8, base \div U8, \H00>>

IndexedPrograms ==
    {Vec(IndexedProgram(row, base, index)) :
        row \in IndexedRows, base \in IndexedBases, index \in IndexedIndexes}

\* the indexed programs, on a CPU as new() leaves it
LoadAndRunIndexed ==
    /\ loop_state = "Idle"
    /\ calls = <<>>
    /\ \E program \in IndexedPrograms : DoLoadAndRun(program)

\* the catalog rows with Indirect_X
IndirectXRows ==
    {CPU_OPS_CODES[i] : i \in {j \in DOMAIN CPU_OPS_CODES :
        CPU_OPS_CODES[j].addressing = "Indirect_X"}}

\* <<operand byte, X>>: pointers 0x55, 0xFF (three ways), 0xFE and 0x00 (two ways)
IndirectXOperands ==
    { <<\H50, \H05>>, <<\H80, \H7F>>, <<\HFF, \H00>>, <<\H00, \HFF>>,
      <<\HFF, \HFF>>, <<\H80, \H80>>, <<\H01, \HFF>> }

\* A program that stores 0x77 at 0x0000, then 0x34 at the pointer
\* (b + x) mod 256 and 0x12 at the address after it, loads 0x33 into A and x
\* into X, and executes `row` with the operand b
IndirectXProgram(row, b, x) ==
    <<\HA9, \H77, \H8D, \H00, \H00,
      \HA9, \H34, \H8D, (b + x) % U8, \H00,
      \HA9, \H12, \H8D, (((b + x) % U8) + 1) % U8, (((b + x) % U8) + 1) \div U8,
      \HA9, \H33, \HA2, x, row.hex, b, \H00>>

IndirectXPrograms ==
    {Vec(IndirectXProgram(row, w[1], w[2])) : row \in IndirectXRows, w \in IndirectXOperands}

\* the Indirect_X programs, on a CPU as new() leaves it
LoadAndRunIndirectX ==
    /\ loop_state = "Idle"
    /\ calls = <<>>
    /\ \E program \in IndirectXPrograms : DoLoadAndRun(program)

\* `LDA #v; TAX; INX; BRK`
IncrementProgram(v) == Vec(<<\HA9, v, \HAA, \HE8, \H00>>)

IncrementPrograms == {IncrementProgram(v) : v \in Byte}

\* the increment programs, on a CPU as new() leaves it
LoadAndRunIncrement ==
    /\ loop_state = "Idle"
    /\ calls = <<>>
    /\ \E program \in IncrementPrograms : DoLoadAndRun(program)

\* the programs with a byte that has no row, on a CPU as new() leaves it
LoadAndRunUnknown ==
    /\ loop_state = "Idle"
    /\ calls = <<>>
    /\ \E program \in UnknownPrograms : DoLoadAndRun(program)

Next ==
    \/ SetField \/ SetByte \/ SetWord
    \/ LoadAndRun \/ LoadAndRunSweep \/ LoadAndRunRow \/ LoadAndRunUnknown
    \/ LoadAndRunIncrement \/ LoadAndRunIndexed \/ LoadAndRunIndirectX \/ Run
    \/ Step

Spec == Init /\ [][Next]_vars

----------------------------------------------------------------------------
(* SpecMem: the memory accessors, called on a new CPU *)

\* number of accessor calls made on one CPU
MaxMemCalls == 2

MemAddrs == {\H0000, \H00FF, \H8000, \HDEAD, \HFFFE, \HFFFF}

MemBytes == {\H00, \HEA}

MemWords == {\H0000, \H80FF, \HBEEF}

MemWrite ==
    /\ Len(calls) < MaxMemCalls
    /\ \E addr \in MemAddrs, data \in MemBytes : DoMemWrite(addr, data)

MemRead ==
    /\ Len(calls) < MaxMemCalls
    /\ \E addr \in MemAddrs : DoMemRead(addr)

MemWriteU16 ==
    /\ Len(calls) < MaxMemCalls
    /\ \E addr \in MemAddrs, data \in MemWords : DoMemWriteU16(addr, data)

MemReadU16 ==
    /\ Len(calls) < MaxMemCalls
    /\ \E addr \in MemAddrs : DoMemReadU16(addr)

NextMem == MemWrite \/ MemRead \/ MemWriteU16 \/ MemReadU16

SpecMem == Init /\ [][NextMem]_vars

LastCall == calls[Len(calls)]

\* the call before the last one
CallBefore == calls[Len(calls) - 1]

\* C2: for every address a and word d, mem_write_u16(a, d) does not fail and
\* stores the low byte of d at a and the high byte at (a + 1) mod 65536, and a
\* mem_read_u16(a) that follows it does not fail and returns d; a = 0xFFFF
\* included, where the high byte lives at 0x0000.
C2_WriteReadU16RoundTrip ==
    /\ (Len(calls) >= 1 /\ LastCall.name = "mem_write_u16")
         => /\ panic = NoPanic
            /\ At(memory, LastCall.addr) = LastCall.data % U8
            /\ At(memory, (LastCall.addr + 1) % U16) = LastCall.data \div U8
    /\ (/\ Len(calls) >= 2
        /\ CallBefore.name = "mem_write_u16"
        /\ LastCall.name = "mem_read_u16"
        /\ LastCall.addr = CallBefore.addr)
         => /\ panic = NoPanic
            /\ ret = CallBefore.data

\* C3: for every address in 0x0000 .. 0xFFFF, mem_write and mem_read do not
\* fail, and a mem_read(a) that follows mem_write(a, b) returns b.
C3_MemoryCoversAddressSpace ==
    /\ (Len(calls) >= 1 /\ LastCall.name \in {"mem_write", "mem_read"})
         => panic = NoPanic
    /\ (Len(calls) >= 1 /\ LastCall.name = "mem_write")
         => At(memory, LastCall.addr) = LastCall.data
    /\ (/\ Len(calls) >= 2
        /\ CallBefore.name = "mem_write"
        /\ LastCall.name = "mem_read"
        /\ LastCall.addr = CallBefore.addr)
         => ret = CallBefore.data

----------------------------------------------------------------------------
(* SpecApi: the public methods load, reset, run and load_and_run, called in *)
(* any order on one CPU, between writes to its public fields                *)

\* number of calls and field writes made on one CPU
MaxApiCalls == 3

\* A program of len bytes: head, zeroes, tail
Image(head, len, tail) ==
    [len |-> len,
     at  |-> [i \in {j \in 0 .. (Len(head) - 1) : head[j + 1] # 0}
                    \cup {len - Len(tail) + j : j \in {k \in 0 .. (Len(tail) - 1) : tail[k + 1] # 0}}
                |-> IF i < Len(head) THEN head[i + 1] ELSE tail[i - (len - Len(tail)) + 1]]]

\* LDA #$05; BRK
ProgLda == <<\HA9, \H05, \H00>>

\* LDY #$05; LDA #$C0; TAX; STA $10; BRK
ProgAll == <<\HA0, \H05, \HA9, \HC0, \HAA, \H85, \H10, \H00>>

\* LDA $10; LDX $0B,Y; BRK
ProgReadBack == <<\HA5, \H10, \HB6, \H0B, \H00>>

\* the programs whose image ends just below the reset vector, inside it, at the
\* last byte of the array, and at the last address of the 16-bit address space
ApiImages ==
    { Image(ProgLda, \H7FFC, <<\HEA, \HEA>>),
      Image(ProgLda, \H7FFD, <<\HEA, \HEA>>),
      Image(ProgLda, \H7FFF, <<\HEA, \HEA, \HEA, \HEA>>),
      Image(ProgLda, \H8000, <<\HEA, \HEA, \HEA, \HEA, \HEA>>) }

ApiFieldWrites ==
    { <<"program_counter", \H1234>>, <<"register_a", \HEA>>, <<"status", \HFF>> }

ApiSetField ==
    /\ Len(calls) < MaxApiCalls
    /\ \E w \in ApiFieldWrites : DoSetField(w[1], w[2])

\* a start address other than LOAD_ORIGIN in the reset vector
ApiMemWriteU16 ==
    /\ Len(calls) < MaxApiCalls
    /\ DoMemWriteU16(RESET_VECTOR, \H0010)

ApiLoad ==
    /\ Len(calls) < MaxApiCalls
    /\ \E program \in {Vec(ProgLda), Vec(ProgAll)} \cup ApiImages : DoLoad(program)

ApiReset ==
    /\ Len(calls) < MaxApiCalls
    /\ DoReset

ApiRun ==
    /\ Len(calls) < MaxApiCalls
    /\ DoRun

ApiLoadAndRun ==
    /\ Len(calls) < MaxApiCalls
    /\ \E program \in {Vec(ProgAll), Vec(ProgReadBack)} : DoLoadAndRun(program)

NextApi ==
    ApiSetField \/ ApiMemWriteU16 \/ ApiLoad \/ ApiReset \/ ApiRun \/ ApiLoadAndRun \/ Step

SpecApi == Init /\ [][NextApi]_vars

\* the two bytes of the reset vector
VectorAddrs == {RESET_VECTOR, RESET_VECTOR + 1}

\* the addresses load copies program to
ImageAddrs(program) == LOAD_ORIGIN .. (LOAD_ORIGIN + program.len - 1)

\* The addresses at which the memory now, the memory at the last call or the
\* image of program holds a non-zero byte, and the reset vector: at every other
\* address all three hold 0, so a statement about "every address" that compares
\* them need only be checked at these.
Relevant(program) ==
    DOMAIN memory \cup DOMAIN entry.memory
        \cup {LOAD_ORIGIN + i : i \in DOMAIN program.at} \cup VectorAddrs

RegistersOf(c) == <<c.program_counter, c.register_a, c.register_x, c.register_y, c.status>>

\* C5: for a non-empty program within the caller's bound
\* 0x8000 + len <= 0x10000, load completes, and a reset that follows it
\* completes and leaves the program counter at 0x8000.
C5_LoadResetStartsAtOrigin ==
    /\ (/\ Len(calls) >= 1
        /\ LastCall.name = "load"
        /\ LastCall.program.len >= 1
        /\ LOAD_ORIGIN + LastCall.program.len <= U16)
         => panic = NoPanic
    /\ (/\ Len(calls) >= 2
        /\ CallBefore.name = "load"
        /\ CallBefore.program.len >= 1
        /\ LOAD_ORIGIN + CallBefore.program.len <= U16
        /\ LastCall.name = "reset")
         => /\ panic = NoPanic
            /\ program_counter = LOAD_ORIGIN

\* C6: when load(bytes) returns, memory[0x8000 + i] = bytes[i] for every i
\* outside the reset vector, 0xFFFC holds 0x00 and 0xFFFD holds 0x80 (also when
\* the image covers them), every memory byte outside the image and the vector
\* is as it was, and so are the registers, the flags and the program counter.
C6_LoadEffect ==
    (Len(calls) >= 1 /\ LastCall.name = "load" /\ panic = NoPanic)
      => /\ \A a \in Relevant(LastCall.program) :
                IF a \in VectorAddrs
                THEN At(memory, a) = to_le_bytes(LOAD_ORIGIN)[a - RESET_VECTOR + 1]
                ELSE IF a \in ImageAddrs(LastCall.program)
                THEN At(memory, a) = VecAt(LastCall.program, a - LOAD_ORIGIN)
                ELSE At(memory, a) = At(entry.memory, a)
         /\ RegistersOf(Cpu) = RegistersOf(entry)

\* C6 happens: a load returned whose image covers the reset vector with
\* non-zero bytes and replaces bytes of an earlier program, on a CPU whose
\* registers and memory outside the image were not zero
C6_Witness ==
    /\ Len(calls) >= 1
    /\ LastCall.name = "load"
    /\ panic = NoPanic
    /\ VecAt(LastCall.program, RESET_VECTOR - LOAD_ORIGIN) # 0
    /\ VecAt(LastCall.program, 0) # At(entry.memory, LOAD_ORIGIN)
    /\ At(entry.memory, 16) # 0
    /\ entry.register_y # 0
    /\ entry.status # 0

\* C7: reset sets the program counter to memory[0xFFFC] + 256 * memory[0xFFFD]
\* and the accumulator, index-X and the flags byte to 0, and leaves index-Y and
\* every memory byte as they were.
C7_ResetEffect ==
    (Len(calls) >= 1 /\ LastCall.name = "reset")
      => /\ panic = NoPanic
         /\ program_counter
              = At(entry.memory, RESET_VECTOR) + U8 * At(entry.memory, RESET_VECTOR + 1)
         /\ register_a = 0
         /\ register_x = 0
         /\ status = 0
         /\ register_y = entry.register_y
         /\ memory = entry.memory

\* C7 happens: a reset of a CPU whose accumulator, index registers and flags
\* were not zero and whose reset vector held neither 0 nor 0x8000
C7_Witness ==
    /\ Len(calls) >= 1
    /\ LastCall.name = "reset"
    /\ entry.register_a # 0
    /\ entry.register_x # 0
    /\ entry.register_y # 0
    /\ entry.status # 0
    /\ entry.program_counter # program_counter
    /\ program_counter \notin {0, LOAD_ORIGIN}

\* C8: a reset that directly follows a reset leaves the accumulator, index-X,
\* the flags and the program counter (and index-Y) as the first one left them.
C8_ResetIdempotent ==
    (Len(calls) >= 2 /\ CallBefore.name = "reset" /\ LastCall.name = "reset")
      => /\ panic = NoPanic
         /\ RegistersOf(Cpu) = RegistersOf(entry)

\* C8 happens: two resets in a row after a run that left registers set, with a
\* start address in the vector
C8_Witness ==
    /\ Len(calls) >= 3
    /\ calls[1].name = "load_and_run"
    /\ CallBefore.name = "reset"
    /\ LastCall.name = "reset"
    /\ program_counter # 0
    /\ register_y # 0

\* C9: load_and_run(bytes) enters the loop in the state load(bytes) followed by
\* reset() gives - accumulator, index-X and flags 0, index-Y and the memory
\* outside the image and the vector as before the call - and ends in the state
\* run() then gives.
C9_LoadAndRunIsLoadResetRun ==
    (Len(calls) >= 1 /\ LastCall.name = "load_and_run")
      => /\ (loop_state = "Running" /\ ~instr.fetched)
              => /\ Cpu = reset(load(entry, LastCall.program))
                 /\ register_a = 0
                 /\ register_x = 0
                 /\ status = 0
                 /\ register_y = entry.register_y
                 /\ \A a \in Relevant(LastCall.program) \ VectorAddrs :
                        a \notin ImageAddrs(LastCall.program)
                          => At(memory, a) = At(entry.memory, a)
         /\ loop_state \in {"Halted", "Panicked"}
              => Cpu = run(reset(load(entry, LastCall.program)))

\* C9 happens: load_and_run returned after a run that read a memory byte and
\* index-Y set before the call, on a CPU whose accumulator, index-X and flags
\* were set before the call
C9_Witness ==
    /\ Len(calls) >= 1
    /\ LastCall.name = "load_and_run"
    /\ loop_state = "Halted"
    /\ entry.register_a # 0
    /\ entry.register_x # 0
    /\ entry.status # 0
    /\ entry.register_y # 0
    /\ register_y = entry.register_y
    /\ register_x = At(entry.memory, 11 + entry.register_y)
    /\ register_x # 0

----------------------------------------------------------------------------
(* The run loop and the instructions, under Spec *)

\* the last iteration of the run loop executed a load instruction to its end
LoadExecuted ==
    /\ instr.decoded
    /\ instr.mnemonic \in {"LDA", "LDX", "LDY"}
    /\ panic = NoPanic

\* the register a load mnemonic assigns
TargetOf(mnemonic) ==
    CASE mnemonic = "LDA" -> register_a
      [] mnemonic = "LDX" -> register_x
      [] mnemonic = "LDY" -> register_y

ZeroFlag(s) == Bit(s, 1) = 1

NegativeFlag(s) == Bit(s, 7) = 1

\* C1: after LDA, LDX or LDY, in any addressing mode, has loaded the byte v at
\* its effective address, the target register holds v, the zero flag is set
\* iff v = 0 and the negative flag is set iff v & 0x80 # 0, whatever the flags
\* were before.
C1_LoadSetsZeroAndNegative ==
    LoadExecuted
      => /\ instr.resolved
         /\ TargetOf(instr.mnemonic) = At(prev.memory, instr.address)
         /\ ZeroFlag(status) <=> TargetOf(instr.mnemonic) = 0
         /\ NegativeFlag(status) <=> BitAnd(TargetOf(instr.mnemonic), 128) # 0

\* C1 happens: a load through memory of the byte 0 into a register other than
\* the accumulator, with the negative flag set and the zero flag clear before it
C1_Witness ==
    /\ LoadExecuted
    /\ instr.mnemonic # "LDA"
    /\ instr.addressing # "Immediate"
    /\ NegativeFlag(prev.status)
    /\ ~ZeroFlag(prev.status)
    /\ TargetOf(instr.mnemonic) = 0
    /\ ZeroFlag(status)
    /\ ~NegativeFlag(status)

\* C4: a run ends only by executing halt or by a decode fault: when the loop
\* has ended otherwise than by returning, a byte was fetched that has no
\* catalog row and nothing else failed (no counter or address arithmetic, no
\* access at 0xFFFF).
C4_RunEndsOnlyByHaltOrDecodeFault ==
    (/\ Len(calls) >= 1
     /\ LastCall.name \in {"run", "load_and_run"}
     /\ prev.panic = NoPanic
     /\ loop_state = "Panicked")
      => /\ instr.fetched
         /\ ~instr.decoded
         /\ panic = NotImplemented

\* the fields of the CPU, and what the loop fetched last
CpuAndInstr ==
    <<program_counter, register_a, register_x, register_y, status, memory, panic, instr>>

\* C10, in every state: the loop is Running when run is entered and after every
\* executed instruction other than halt, and it is Halted exactly when the
\* byte fetched last is 0x00, which decodes to halt.
C10_LoopStates ==
    /\ (/\ Len(calls) >= 1
        /\ LastCall.name \in {"run", "load_and_run"}
        /\ prev.panic = NoPanic
        /\ ~instr.fetched
        /\ panic = NoPanic) => loop_state = "Running"
    /\ (instr.decoded /\ instr.mnemonic # "BRK" /\ panic = NoPanic) => loop_state = "Running"
    /\ loop_state = "Halted"
         <=> (instr.fetched /\ instr.code = 0 /\ instr.decoded /\ instr.mnemonic = "BRK")

\* C10: C10_LoopStates always holds, and once the loop is Halted the run
\* fetches and executes nothing and changes no register, flag or memory byte.
C10_RunningUntilHalt ==
    /\ []C10_LoopStates
    /\ [][(loop_state = "Halted" /\ calls' = calls) => UNCHANGED CpuAndInstr]_vars

\* C10 happens: the loop halted on a BRK after executing other instructions
C10_Witness ==
    /\ loop_state = "Halted"
    /\ instr.code = 0
    /\ instr.at > LOAD_ORIGIN + 2
    /\ register_x # 0

\* C11: when the byte fetched at the counter has no catalog row the run ends
\* there in a decode fault: the accumulator, the index registers, the flags
\* and the memory are as they were before the fetch and the counter is one
\* past the byte.
C11_DecodeFaultState ==
    (instr.fetched /\ instr.code \notin DOMAIN OPCODES_MAP)
      => /\ loop_state = "Panicked"
         /\ panic = NotImplemented
         /\ ~instr.decoded
         /\ ~instr.resolved
         /\ register_a = prev.register_a
         /\ register_x = prev.register_x
         /\ register_y = prev.register_y
         /\ status = prev.status
         /\ memory = prev.memory
         /\ program_counter = prev.program_counter + 1

\* C11: C11_DecodeFaultState always holds, and nothing executes after a fault:
\* every step is taken by a run or a caller that has not panicked.
C11_DecodeFaultEndsRun ==
    /\ []C11_DecodeFaultState
    /\ [][loop_state # "Panicked"]_vars

\* C11 happens: a byte without a row is fetched after instructions that
\* changed registers, flags and memory, and before an INX that never runs
C11_Witness ==
    /\ instr.fetched
    /\ instr.code = \HEA
    /\ panic = NotImplemented
    /\ register_a = \H80
    /\ register_x = \H01
    /\ NegativeFlag(status)
    /\ At(memory, \H10) = \H80
    /\ At(memory, program_counter) = \HE8

----------------------------------------------------------------------------
(* SpecAddr: the addressing resolver on its own.  The CPU holds an operand   *)
(* at its counter and values in its index registers, as a caller leaves them *)
(* through the public fields and mem_write, and get_address is called once.  *)

\* The CPU with its counter at 0x0600, the operand byte b there, 0x12 after
\* it, x in register X and y in register Y
Operand(b, x, y) ==
    [new EXCEPT !.program_counter = \H0600,
                !.register_x = x,
                !.register_y = y,
                !.memory = Put(Put(ZeroMemory, \H0600, b), \H0601, \H12)]

\* every operand byte with every value of X, and Y a value other than X's
InitAddr ==
    /\ \E b \in Byte, r \in Byte :
           \E c \in {Operand(b, r, (U8 - 1) - r)} :
               /\ program_counter = c.program_counter
               /\ register_a = c.register_a
               /\ register_x = c.register_x
               /\ register_y = c.register_y
               /\ status = c.status
               /\ memory = c.memory
               /\ panic = c.panic
               /\ entry = c
               /\ prev = c
    /\ overflow_checks \in BOOLEAN
    /\ loop_state = "Idle"
    /\ calls = <<>>
    /\ instr = NoInstr
    /\ ret = 0

\* `self.get_address(&addressing_mode)`: instr records the mode and the
\* Option<u16> returned
DoGetAddress(addressing_mode) ==
    /\ loop_state = "Idle"
    /\ \E r \in {get_address(Cpu, addressing_mode)} :
           /\ Install(r.cpu)
           /\ instr' = [NoInstr EXCEPT !.addressing = addressing_mode,
                                       !.resolved = r.address.some,
                                       !.address = r.address.val]
           /\ loop_state' = IF r.cpu.panic # NoPanic THEN "Panicked" ELSE "Idle"
    /\ calls' = <<CallRecord("get_address", NoProgram, addressing_mode, 0, 0)>>
    /\ entry' = Cpu
    /\ prev' = Cpu
    /\ UNCHANGED <<overflow_checks, ret>>

\* one call, on the CPU as set up
GetAddress ==
    /\ calls = <<>>
    /\ \E addressing_mode \in AddressingMode : DoGetAddress(addressing_mode)

NextAddr == GetAddress

SpecAddr == InitAddr /\ [][NextAddr]_vars

\* get_address has been called and has returned
Resolved(modes) ==
    /\ calls # <<>>
    /\ LastCall.name = "get_address"
    /\ LastCall.field \in modes
    /\ panic = NoPanic

\* the operand byte the call found at the counter
OperandByte == At(prev.memory, prev.program_counter)

\* C12: for ZeroPage_X and ZeroPage_Y, for every operand byte b and every
\* value r of the index register, the effective address is (b + r) mod 256,
\* an address of page 0, and the counter has passed the one operand byte.
C12_ZeroPageIndexedWraps ==
    Resolved({"ZeroPage_X", "ZeroPage_Y"})
      => /\ instr.resolved
         /\ instr.address =
                (OperandByte + (IF LastCall.field = "ZeroPage_X"
                                THEN prev.register_x ELSE prev.register_y)) % U8
         /\ instr.address \in 0 .. (U8 - 1)

\* C12 happens: the operand 0x80 with 0xFF in X gives 0x007F
C12_Witness ==
    /\ Resolved({"ZeroPage_X"})
    /\ OperandByte = \H80
    /\ prev.register_x = \HFF
    /\ instr.address = \H7F

----------------------------------------------------------------------------
(* Spec: the handlers *)

\* the last iteration of the loop executed an instruction of this mnemonic
Executed(mnemonic) ==
    /\ instr.decoded
    /\ instr.mnemonic = mnemonic
    /\ panic = NoPanic

\* the zero and negative flags of status are those of the byte v
FlagsOf(v) ==
    /\ ZeroFlag(status) <=> v = 0
    /\ NegativeFlag(status) <=> BitAnd(v, 128) # 0

\* the last call is load_and_run of `LDA #v; TAX; INX; BRK` for some v
RunsIncrementProgram ==
    /\ calls # <<>>
    /\ LastCall.name = "load_and_run"
    /\ LastCall.program \in IncrementPrograms

\* C13: INX never fails and leaves (X + 1) mod 256 in X, for every X, with the
\* zero and negative flags of the new X; and for every byte v the program
\* `LDA #v; TAX; INX; BRK` runs through its five bytes without a fault and
\* halts with X = (v + 1) mod 256 and the flags of that value.
C13_IncrementWraps ==
    /\ (instr.decoded /\ instr.mnemonic = "INX")
         => /\ panic = NoPanic
            /\ register_x = (prev.register_x + 1) % U8
            /\ FlagsOf(register_x)
    /\ RunsIncrementProgram
         => /\ loop_state \in {"Running", "Halted"}
            /\ loop_state = "Running"
                 => program_counter \in LOAD_ORIGIN .. (LOAD_ORIGIN + 4)
            /\ loop_state = "Halted"
                 => /\ register_x = (VecAt(LastCall.program, 1) + 1) % U8
                    /\ FlagsOf((VecAt(LastCall.program, 1) + 1) % U8)

\* C13 happens: `LDA #$FF; TAX; INX; BRK` has halted with X wrapped to 0x00,
\* the zero flag set and the negative flag, set before the INX, clear
C13_Witness ==
    /\ RunsIncrementProgram
    /\ VecAt(LastCall.program, 1) = \HFF
    /\ loop_state = "Halted"
    /\ register_a = \HFF
    /\ register_x = \H00
    /\ ZeroFlag(status)
    /\ ~NegativeFlag(status)

\* the little-endian word at addr in the memory m
WordAt(m, addr) == from_le_bytes(At(m, addr), At(m, addr + 1))

\* the program of test_0x91_sta_indirect_y: LDA #$EA; LDY #$05; STA ($50),Y
StaIndirectYProgram == Vec(<<\HA9, \HEA, \HA0, \H05, \H91, \H50, \H00>>)

\* the last call is load_and_run of that program, with the pointer 0x5000 at 0x0050
RunsStaIndirectY ==
    /\ calls # <<>>
    /\ LastCall.name = "load_and_run"
    /\ LastCall.program = StaIndirectYProgram
    /\ WordAt(entry.memory, \H50) = \H5000

\* C14: whenever the resolver returns an address for a 16-bit indexed mode it
\* is (base + index) mod 65536: for Absolute_X and Absolute_Y the operand word
\* plus X or Y; for Indirect_Y the word stored at the zero-page address that
\* the operand byte names, plus Y.  And with the pointer 0x5000 at 0x0050,
\* `LDA #$EA; LDY #$05; STA ($50),Y` runs without a fault and halts with 0xEA
\* at 0x5005.
C14_IndexedAddress ==
    /\ (instr.resolved /\ instr.addressing = "Absolute_X")
         => instr.address = (WordAt(prev.memory, instr.at + 1) + prev.register_x) % U16
    /\ (instr.resolved /\ instr.addressing = "Absolute_Y")
         => instr.address = (WordAt(prev.memory, instr.at + 1) + prev.register_y) % U16
    /\ (instr.resolved /\ instr.addressing = "Indirect_Y")
         => instr.address =
                (WordAt(prev.memory, At(prev.memory, instr.at + 1)) + prev.register_y) % U16
    /\ RunsStaIndirectY
         => /\ loop_state \in {"Running", "Halted"}
            /\ loop_state = "Halted" => At(memory, \H5005) = \HEA

\* C14 happens: the store through ($50),Y with the pointer 0x5000 and Y = 5
\* has been executed and the run has halted
C14_Witness ==
    /\ RunsStaIndirectY
    /\ loop_state = "Halted"
    /\ register_y = \H05
    /\ At(memory, \H5005) = \HEA
    /\ At(memory, \H0055) = \H00

\* C15: STA, in each of its modes, writes the accumulator to the effective
\* address and to no other byte, leaves the accumulator as it was, and sets
\* the zero and negative flags from the accumulator, whatever they were.
C15_StoreWritesAccumulatorAndFlags ==
    Executed("STA")
      => /\ instr.resolved
         /\ memory = Put(prev.memory, instr.address, prev.register_a)
         /\ At(memory, instr.address) = register_a
         /\ register_a = prev.register_a
         /\ FlagsOf(register_a)

\* C15 happens: a store of 0x80 through ($50,X) to a byte that held 0x00,
\* with the negative flag clear before it and set after it
C15_Witness ==
    /\ Executed("STA")
    /\ instr.addressing = "Indirect_X"
    /\ register_a = \H80
    /\ At(prev.memory, instr.address) = \H00
    /\ At(memory, instr.address) = \H80
    /\ ~NegativeFlag(prev.status)
    /\ NegativeFlag(status) /\ ~ZeroFlag(status)

\* C16: TAX never fails, resolves no address and leaves the accumulator's
\* value in X, the accumulator and every memory byte as they were, the counter
\* one past the opcode, and the zero and negative flags of the new X.
C16_TransferCopiesAccumulator ==
    (instr.decoded /\ instr.mnemonic = "TAX")
      => /\ panic = NoPanic
         /\ ~instr.resolved
         /\ register_x = prev.register_a
         /\ register_a = prev.register_a
         /\ memory = prev.memory
         /\ program_counter = instr.at + 1
         /\ FlagsOf(register_x)

\* C16 happens: a TAX of 0x80 over X = 0x01, with the negative flag clear
\* before it and set after it
C16_Witness ==
    /\ Executed("TAX")
    /\ prev.register_x = \H01
    /\ register_x = \H80
    /\ register_a = \H80
    /\ ~NegativeFlag(prev.status)
    /\ NegativeFlag(status) /\ ~ZeroFlag(status)

\* the operand bytes of an instruction, by the addressing mode of its row
OperandCount(addressing_mode) ==
    CASE addressing_mode = "Implied" -> 0
      [] addressing_mode \in {"Immediate", "ZeroPage", "ZeroPage_X", "ZeroPage_Y",
                              "Indirect_X", "Indirect_Y"} -> 1
      [] addressing_mode \in {"Absolute", "Absolute_X", "Absolute_Y"} -> 2

\* C17, in every state: an executed instruction leaves the counter 1 + n past
\* the address of its opcode, n the operand count of its addressing mode.
C17_CounterAfterInstruction ==
    (instr.decoded /\ panic = NoPanic)
      => program_counter = instr.at + 1 + OperandCount(instr.addressing)

\* C17: C17_CounterAfterInstruction always holds, and the opcode fetched after
\* an executed instruction is the byte right after its last operand byte.
C17_CounterAdvance ==
    /\ []C17_CounterAfterInstruction
    /\ [][(loop_state = "Running" /\ instr.decoded /\ instr'.fetched)
            => instr'.at = instr.at + 1 + OperandCount(instr.addressing)]_vars

\* C17 happens: an opcode is fetched three bytes after an LDA $xxxx,Y that
\* followed a two-byte instruction
C17_Witness ==
    /\ instr.fetched
    /\ prev.program_counter = instr.at
    /\ instr.at = LOAD_ORIGIN + 5
    /\ At(memory, LOAD_ORIGIN + 2) = \HB9
    /\ register_y = \H50
    /\ panic = NoPanic

\* the mnemonics whose handlers call the resolver and unwrap its result
ResolvingMnemonics == {"LDA", "LDX", "LDY", "STA"}

\* the addressing modes of the catalog rows of these mnemonics
ResolvingModes ==
    {CPU_OPS_CODES[i].addressing :
        i \in {j \in DOMAIN CPU_OPS_CODES : CPU_OPS_CODES[j].mnemonic \in ResolvingMnemonics}}

\* C18: in a run the resolver never reaches its unhandled-mode branch and no
\* handler unwraps a 'none' address: every catalog row of LDA, LDX, LDY and
\* STA carries a mode for which the resolver returns an address, an
\* instruction of these mnemonics resolves an address unless an access or the
\* counter arithmetic faults first, and TAX, INX and BRK resolve nothing.
C18_NoResolutionFault ==
    /\ panic \notin {NotFinished, UnwrapNone}
    /\ \A mode \in ResolvingModes : get_address(Operand(0, 0, 0), mode).address.some
    /\ (instr.decoded /\ instr.mnemonic \in ResolvingMnemonics)
         => \/ instr.resolved
            \/ panic \in {IndexOutOfBounds, AddOverflow}
    /\ (instr.decoded /\ instr.mnemonic \notin ResolvingMnemonics) => ~instr.resolved

\* C18 happens: a store through ($50),Y has resolved its address and executed
C18_Witness ==
    /\ Executed("STA")
    /\ instr.addressing = "Indirect_Y"
    /\ instr.resolved
    /\ instr.address = \H5005

----------------------------------------------------------------------------
(* SpecAddr: the modes without an operand *)

\* C19: asked for the Accumulator mode, the resolver returns, with 'none' as
\* the address and the counter where it was, as it does for Implied.
C19_AccumulatorResolvesToNone ==
    /\ (calls # <<>> /\ LastCall.name = "get_address" /\ LastCall.field = "Implied")
         => /\ panic = NoPanic
            /\ ~instr.resolved
            /\ program_counter = prev.program_counter
    /\ (calls # <<>> /\ LastCall.name = "get_address" /\ LastCall.field = "Accumulator")
         => /\ panic = NoPanic
            /\ ~instr.resolved
            /\ program_counter = prev.program_counter

----------------------------------------------------------------------------
(* Spec: the catalog *)

\* the rows of the catalog that carry the byte hex
RowsOf(hex) == {i \in DOMAIN CPU_OPS_CODES : CPU_OPS_CODES[i].hex = hex}

\* no two rows of the catalog carry the same byte
CatalogBytesDistinct ==
    \A i, j \in DOMAIN CPU_OPS_CODES :
        CPU_OPS_CODES[i].hex = CPU_OPS_CODES[j].hex => i = j

\* the map has as many entries as the catalog has rows, each row under its byte
MapHoldsEveryRow ==
    /\ Cardinality(DOMAIN OPCODES_MAP) = Len(CPU_OPS_CODES)
    /\ \A i \in DOMAIN CPU_OPS_CODES : OPCODES_MAP[CPU_OPS_CODES[i].hex] = CPU_OPS_CODES[i]

\* C20: no two rows of CPU_OPS_CODES carry the same byte, OPCODES_MAP has one
\* entry per row, and a byte that decodes is the byte of exactly one row, whose
\* mnemonic and addressing mode the decode yields.
C20_OpcodeBytesUnique ==
    /\ CatalogBytesDistinct
    /\ MapHoldsEveryRow
    /\ instr.decoded
         => /\ Cardinality(RowsOf(instr.code)) = 1
            /\ \A i \in RowsOf(instr.code) :
                   /\ instr.mnemonic = CPU_OPS_CODES[i].mnemonic
                   /\ instr.addressing = CPU_OPS_CODES[i].addressing

\* C20 happens: the byte 0xBE has been decoded as LDX with Absolute_Y
C20_Witness ==
    /\ instr.decoded
    /\ instr.code = \HBE
    /\ instr.mnemonic = "LDX"
    /\ instr.addressing = "Absolute_Y"
    /\ panic = NoPanic

----------------------------------------------------------------------------
(* Spec: what an instruction leaves alone *)

\* C21: the iteration that fetches and decodes 0x00 never fails, ends the run,
\* and leaves the accumulator, X, Y, the status byte and every memory byte as
\* they were before the fetch; only the counter has moved, to one past the
\* halt byte.
C21_HaltChangesNothing ==
    (instr.decoded /\ instr.mnemonic = "BRK")
      => /\ instr.code = \H00
         /\ panic = NoPanic
         /\ loop_state = "Halted"
         /\ register_a = prev.register_a
         /\ register_x = prev.register_x
         /\ register_y = prev.register_y
         /\ status = prev.status
         /\ memory = prev.memory
         /\ program_counter = instr.at + 1

\* C21 happens: run() on a CPU with every status bit set and 0xEA in the
\* accumulator has halted on the 0x00 at its counter, with both as they were
C21_Witness ==
    /\ instr.decoded /\ instr.mnemonic = "BRK"
    /\ LastCall.name = "run"
    /\ loop_state = "Halted"
    /\ status = \HFF
    /\ register_a = \HEA
    /\ program_counter = 1

----------------------------------------------------------------------------
(* SpecFlags: one or two instructions on any status byte.  The caller writes *)
(* an instruction at 0x0000, where the counter of a new CPU points, assigns  *)
(* a register and the status byte, may call reset (the reset vector of a new *)
(* CPU holds 0x0000), and calls run.                                         *)

\* <<opcode, operand>>: each mnemonic, with results that are zero, positive
\* and negative
FlagsInstructions ==
    { <<\HA9, \H00>>, <<\HA9, \H05>>, <<\HA9, \H80>>,   \* LDA #
      <<\HA2, \H00>>, <<\HA2, \H80>>,                    \* LDX #
      <<\HA0, \H00>>, <<\HA0, \H7F>>,                    \* LDY #
      <<\HA5, \H00>>,                                    \* LDA $00 (its own opcode)
      <<\H85, \H10>>,                                    \* STA $10
      <<\HAA, \HE8>>,                                    \* TAX; INX
      <<\HE8, \HAA>>,                                    \* INX; TAX
      <<\HEA, \H00>> }                                   \* no catalog row

\* <<field, value>>
FlagsRegisterWrites ==
    { <<"register_a", \H05>>, <<"register_a", \H80>>, <<"register_x", \HFF>> }

\* the calls made so far are all among names
OnlyCalled(names) == \A i \in DOMAIN calls : calls[i].name \in names

\* no field has been assigned so far
NoFieldSet(field) == \A i \in DOMAIN calls : calls[i].field # field

FlagsWrite ==
    /\ calls = <<>>
    /\ \E w \in FlagsInstructions : DoMemWriteU16(\H0000, w[1] + U8 * w[2])

FlagsSetRegister ==
    /\ OnlyCalled({"mem_write_u16"})
    /\ \E w \in FlagsRegisterWrites : DoSetField(w[1], w[2])

FlagsSetStatus ==
    /\ OnlyCalled({"mem_write_u16", "set_field"})
    /\ NoFieldSet("status")
    /\ \E s \in Byte : DoSetField("status", s)

FlagsReset ==
    /\ OnlyCalled({"mem_write_u16", "set_field"})
    /\ loop_state = "Idle"
    /\ DoReset

FlagsRun ==
    /\ OnlyCalled({"mem_write_u16", "set_field", "reset"})
    /\ loop_state = "Idle"
    /\ DoRun

NextFlags ==
    \/ FlagsWrite \/ FlagsSetRegister \/ FlagsSetStatus \/ FlagsReset \/ FlagsRun
    \/ Step

SpecFlags == Init /\ [][NextFlags]_vars

\* bits 0, 2, 3, 4, 5 and 6 of a status byte
OtherBits(s) == BitAnd(s, 125)

\* reset has been called and no field has been assigned since
ResetAndUntouched ==
    \E i \in DOMAIN calls :
        /\ calls[i].name = "reset"
        /\ \A j \in DOMAIN calls : j > i => calls[j].name # "set_field"

\* C22: whatever the status byte held before it, an iteration of the loop
\* leaves bits 0, 2, 3, 4, 5 and 6 of the status byte as they were; and from a
\* reset on, through run, these six bits are 0.
C22_OnlyZeroAndNegativeChange ==
    /\ instr.fetched => OtherBits(status) = OtherBits(prev.status)
    /\ ResetAndUntouched => OtherBits(status) = 0

\* C22 happens: an LDA of a positive byte on a status byte with every bit set
\* has cleared bits 1 and 7 and nothing else
C22_Witness ==
    /\ Executed("LDA")
    /\ prev.status = \HFF
    /\ register_a = \H05
    /\ status = \H7D

----------------------------------------------------------------------------
(* Spec: Indirect_X *)

\* the pointer of an Indirect_X instruction: (operand byte + X) mod 256
PointerOf == (At(prev.memory, instr.at + 1) + prev.register_x) % U8

\* C23: whenever the resolver returns an address for Indirect_X it is the
\* little-endian word at the pointer (operand byte + X) mod 256: the low byte
\* from memory[pointer], the high byte from memory[pointer + 1], which for
\* the pointer 0xFF is memory[0x0100] and not memory[0x0000].
C23_IndirectXPointer ==
    (instr.resolved /\ instr.addressing = "Indirect_X")
      => /\ instr.address % U8 = At(prev.memory, PointerOf)
         /\ instr.address \div U8 = At(prev.memory, PointerOf + 1)
         /\ PointerOf = \HFF => instr.address \div U8 = At(prev.memory, \H0100)

\* C23 happens: a store through ($00,X) with X = 0xFF, hence the pointer
\* 0xFF, has gone to 0x1234, with 0x34 at 0x00FF, 0x12 at 0x0100 and 0x77
\* at 0x0000
C23_Witness ==
    /\ Executed("STA")
    /\ instr.addressing = "Indirect_X"
    /\ At(prev.memory, instr.at + 1) = \H00
    /\ prev.register_x = \HFF
    /\ At(prev.memory, \H00FF) = \H34
    /\ At(prev.memory, \H0100) = \H12
    /\ At(prev.memory, \H0000) = \H77
    /\ instr.address = \H1234
    /\ At(memory, \H1234) = \H33

----------------------------------------------------------------------------
(* SpecLive: the runs of Spec, with the loop of run taking its next iteration *)
(* whenever it can: run is a single thread that nothing blocks.  A CPU as    *)
(* new() leaves it is given any of the programs; a CPU the caller has        *)
(* written to is run from wherever its counter points.                       *)

EveryProgram ==
    Programs \cup SweepPrograms \cup RowPrograms \cup UnknownPrograms
        \cup IncrementPrograms \cup IndexedPrograms \cup IndirectXPrograms

LiveLoadAndRun ==
    /\ loop_state = "Idle"
    /\ calls = <<>>
    /\ \E program \in EveryProgram : DoLoadAndRun(program)

NextLive == SetField \/ SetByte \/ SetWord \/ LiveLoadAndRun \/ Run \/ Step

SpecLive == Init /\ [][NextLive]_vars /\ WF_vars(Step)

\* an iteration of the loop that executes an instruction and goes on or halts
ExecutesOne ==
    /\ loop_state = "Running"
    /\ calls' = calls
    /\ instr'.decoded
    /\ panic' = NoPanic

\* C24: every instruction that is executed leaves the counter higher than it
\* found it, also one that stores over the program; the counter stays below
\* 65536; and every run that is entered ends, by halt or by a fault.
C24_RunTerminates ==
    /\ [][ExecutesOne => program_counter' > program_counter]_vars
    /\ [](program_counter \in 0 .. (U16 - 1))
    /\ (loop_state = "Running") ~> (loop_state \in {"Halted", "Panicked"})

\* C24 happens: a program that stored an INX over its own BRK has executed
\* the INX and halted on the byte after it
C24_Witness ==
    /\ loop_state = "Halted"
    /\ LastCall.name = "load_and_run"
    /\ At(memory, LOAD_ORIGIN + 5) = \HE8
    /\ At(entry.memory, LOAD_ORIGIN + 5) = \H00
    /\ register_x = \H01
    /\ program_counter = LOAD_ORIGIN + 7

----------------------------------------------------------------------------
(* SpecFrame: the runs of SpecLive, and one call of get_address by itself,   *)
(* in each addressing mode, on a CPU the caller has written to or on the CPU *)
(* a program has left behind when it halted.                                 *)

\* no call so far was a call of get_address
NoGetAddressYet == \A i \in DOMAIN calls : calls[i].name # "get_address"

\* `self.get_address(&addressing_mode)` out of any handler; ret is 1 for
\* Some(_) and 0 for None
FrameGetAddress ==
    /\ NoGetAddressYet
    /\ \E addressing_mode \in AddressingMode :
           \E r \in {get_address(Cpu, addressing_mode)} :
               Returns(r.cpu, CallRecord("get_address", NoProgram, addressing_mode, 0, 0),
                       IF r.address.some THEN 1 ELSE 0)

\* one instruction of each catalog row, on the operand 0x10 or 0x0210, and BRK
FramePrograms ==
    {Vec(<<CPU_OPS_CODES[i].hex>>
           \o (IF OperandBytes(CPU_OPS_CODES[i].addressing) = 2
               THEN <<\H10, \H02>> ELSE <<\H10>>)
           \o <<\H00>>) : i \in DOMAIN CPU_OPS_CODES}

\* <<register_a, register_x, register_y, status>> as the caller leaves them
FrameRegisters ==
    {\H00, \H33, \H80} \X {\H01, \HFF} \X {\H02, \HF0} \X {\H00, \H7D, \HFF}

\* `cpu.load(program)` on a CPU as new() leaves it
FrameLoad ==
    /\ calls = <<>>
    /\ \E program \in FramePrograms : DoLoad(program)

\* after load, the caller points the counter at the program and writes the
\* three registers and the status byte
FrameSetRegisters ==
    /\ calls # <<>>
    /\ LastCall.name = "load"
    /\ \E w \in FrameRegisters :
           \E c \in {[Cpu EXCEPT !.program_counter = LOAD_ORIGIN, !.register_a = w[1],
                                 !.register_x = w[2], !.register_y = w[3],
                                 !.status = w[4]]} :
               Returns(c, CallRecord("set_fields", NoProgram, "", 0, 0), ret)

NextFrame ==
    \/ SetField \/ SetByte \/ SetWord \/ LiveLoadAndRun
    \/ FrameLoad \/ FrameSetRegisters
    \/ Run \/ Step \/ FrameGetAddress

SpecFrame == Init /\ [][NextFrame]_vars

\* the registers other than `target` and the status bits other than zero and
\* negative are as the instruction found them
OnlyRegister(target) ==
    /\ \A register \in {"register_a", "register_x", "register_y"} \ {target} :
           Cpu[register] = prev[register]
    /\ OtherBits(status) = OtherBits(prev.status)

\* the last call was get_address by itself, and it returned
GetAddressReturned ==
    /\ calls # <<>>
    /\ LastCall.name = "get_address"
    /\ panic = NoPanic

\* C25: apart from the counter and the zero and negative flags, LDA changes
\* only the accumulator, LDX, TAX and INX only X, LDY only Y, and STA no
\* register and no memory byte other than the one at the effective address;
\* every other instruction leaves every memory byte as it was; and a call of
\* get_address that returns leaves the three registers, the whole status
\* byte and every memory byte as it found them.
C25_FrameEffects ==
    /\ Executed("LDA") => OnlyRegister("register_a")
    /\ \A mnemonic \in {"LDX", "TAX", "INX"} :
           Executed(mnemonic) => OnlyRegister("register_x")
    /\ Executed("LDY") => OnlyRegister("register_y")
    /\ Executed("STA")
         => /\ OnlyRegister("")
            /\ instr.resolved
            /\ \A addr \in (DOMAIN memory \cup DOMAIN prev.memory) \ {instr.address} :
                   At(memory, addr) = At(prev.memory, addr)
    /\ \A mnemonic \in CpuMnemonic \ {"STA"} :
           Executed(mnemonic) => memory = prev.memory
    /\ GetAddressReturned
         => /\ register_a = entry.register_a
            /\ register_x = entry.register_x
            /\ register_y = entry.register_y
            /\ status = entry.status
            /\ memory = entry.memory

\* C25 happens: after `LDA #$33; LDY #$FF; STA $1234,Y; BRK` has halted, with
\* 0x33 stored at 0x1333, get_address in mode Indirect_X has returned an
\* address and moved the counter by one
C25_Witness ==
    /\ GetAddressReturned
    /\ LastCall.field = "Indirect_X"
    /\ ret = 1
    /\ Len(calls) = 2
    /\ calls[1].name = "load_and_run"
    /\ register_a = \H33
    /\ register_y = \HFF
    /\ At(memory, \H1333) = \H33
    /\ NegativeFlag(status) = FALSE
    /\ program_counter = entry.program_counter + 1

====
